---- MODULE Spec2Model ----
(***************************************************************************)
(* Model of scripts/calculate_growing_days.py: the seasonal temperature    *)
(* engine (lerp_curve .. calculate_from_min_max), the cache-file parser    *)
(* (parse_cache_file), the filter/report loop (analyze_cache) and main.    *)
(*                                                                         *)
(* Numbers.  Python floats are modelled in fixed point:                    *)
(*   temperatures      in units of 1/TempUnit degree C                     *)
(*   equator distances in units of 1/DistUnit                              *)
(*   cosines           in units of 1/CosUnit                               *)
(* DistUnit = 80 * TempUnit makes both directions of the seasonal curve    *)
(* exact on every temperature that is a multiple of 1/TempUnit; TempUnit   *)
(* = 20 makes one-decimal texts and the halvings of calculate_from_min_max *)
(* exact.  All products stay below 2^31 for |temperature| <= 50 degrees.   *)
(***************************************************************************)
EXTENDS Integers, Sequences, FiniteSets, TLC

VARIABLES
    pc,            \* position of the program: see the actions
    argv,          \* parsed command line / call arguments
    lineno,        \* number of lines of the file read so far
    file,          \* the lines read so far (kept only by the parser study)
    current_tile,  \* parse_cache_file: id of the open block, or None
    current_data,  \* parse_cache_file: dict of the open block
    tiles,         \* parse_cache_file / analyze_cache: ordered dict id -> data
    criteria,      \* analyze_cache: filter_criteria (a dict, or None)
    idx,           \* analyze_cache: number of tiles the loop has handled
    results,       \* analyze_cache: results list
    year_round_count,
    stats,         \* analyze_cache: with_river / with_road / mountainous
    outcome,       \* how the run ended: exit code, return value or exception
    call,          \* pure-function studies: the call made
    ret            \* pure-function studies: its return value

vars == <<pc, argv, lineno, file, current_tile, current_data, tiles, criteria,
          idx, results, year_round_count, stats, outcome, call, ret>>

progVars == <<pc, argv, lineno, file, current_tile, current_data, tiles,
              criteria, idx, results, year_round_count, stats, outcome>>

None == "None"

(***************************************************************************)
(* Fixed-point units                                                       *)
(***************************************************************************)
TempUnit == 20
DistUnit == 80 * TempUnit
CosUnit == 10000

(***************************************************************************)
(* CONSTANTS (lines 41-57)                                                 *)
(***************************************************************************)
TICKS_PER_DAY == 60000
DAYS_PER_YEAR == 60
TWELFTHS_PER_YEAR == 12
DAYS_PER_TWELFTH == 5
TICKS_PER_TWELFTH == 300000
MIN_GROWTH_TEMP == 6 * TempUnit
MAX_GROWTH_TEMP == 42 * TempUnit

\* SEASONAL_CURVE: (0.0, 3.0), (0.1, 4.0), (1.0, 28.0)
SEASONAL_CURVE ==
    << <<0, 3 * TempUnit>>,
       <<DistUnit \div 10, 4 * TempUnit>>,
       <<DistUnit, 28 * TempUnit>> >>

(***************************************************************************)
(* math.cos.  The engine only evaluates the cosine at multiples of a       *)
(* quarter degree (one sample step of 2500 ticks is 1/1440 of the year).   *)
(* QuarterCos[j+1] = round(CosUnit * cos(j * 0.25 degrees)), j = 0..360.   *)
(***************************************************************************)
QuarterCos ==
  <<
     10000, 10000, 10000, 9999, 9998, 9998, 9997, 9995, 9994, 9992, 9990, 9988,
     9986, 9984, 9981, 9979, 9976, 9973, 9969, 9966, 9962, 9958, 9954, 9950,
     9945, 9941, 9936, 9931, 9925, 9920, 9914, 9909, 9903, 9897, 9890, 9884,
     9877, 9870, 9863, 9856, 9848, 9840, 9833, 9825, 9816, 9808, 9799, 9790,
     9781, 9772, 9763, 9753, 9744, 9734, 9724, 9713, 9703, 9692, 9681, 9670,
     9659, 9648, 9636, 9625, 9613, 9600, 9588, 9576, 9563, 9550, 9537, 9524,
     9511, 9497, 9483, 9469, 9455, 9441, 9426, 9412, 9397, 9382, 9367, 9351,
     9336, 9320, 9304, 9288, 9272, 9255, 9239, 9222, 9205, 9188, 9171, 9153,
     9135, 9118, 9100, 9081, 9063, 9045, 9026, 9007, 8988, 8969, 8949, 8930,
     8910, 8890, 8870, 8850, 8829, 8809, 8788, 8767, 8746, 8725, 8704, 8682,
     8660, 8638, 8616, 8594, 8572, 8549, 8526, 8504, 8480, 8457, 8434, 8410,
     8387, 8363, 8339, 8315, 8290, 8266, 8241, 8216, 8192, 8166, 8141, 8116,
     8090, 8064, 8039, 8013, 7986, 7960, 7934, 7907, 7880, 7853, 7826, 7799,
     7771, 7744, 7716, 7688, 7660, 7632, 7604, 7576, 7547, 7518, 7490, 7461,
     7431, 7402, 7373, 7343, 7314, 7284, 7254, 7224, 7193, 7163, 7133, 7102,
     7071, 7040, 7009, 6978, 6947, 6915, 6884, 6852, 6820, 6788, 6756, 6724,
     6691, 6659, 6626, 6593, 6561, 6528, 6494, 6461, 6428, 6394, 6361, 6327,
     6293, 6259, 6225, 6191, 6157, 6122, 6088, 6053, 6018, 5983, 5948, 5913,
     5878, 5842, 5807, 5771, 5736, 5700, 5664, 5628, 5592, 5556, 5519, 5483,
     5446, 5410, 5373, 5336, 5299, 5262, 5225, 5188, 5150, 5113, 5075, 5038,
     5000, 4962, 4924, 4886, 4848, 4810, 4772, 4733, 4695, 4656, 4617, 4579,
     4540, 4501, 4462, 4423, 4384, 4344, 4305, 4266, 4226, 4187, 4147, 4107,
     4067, 4027, 3987, 3947, 3907, 3867, 3827, 3786, 3746, 3706, 3665, 3624,
     3584, 3543, 3502, 3461, 3420, 3379, 3338, 3297, 3256, 3214, 3173, 3132,
     3090, 3049, 3007, 2965, 2924, 2882, 2840, 2798, 2756, 2714, 2672, 2630,
     2588, 2546, 2504, 2462, 2419, 2377, 2334, 2292, 2250, 2207, 2164, 2122,
     2079, 2036, 1994, 1951, 1908, 1865, 1822, 1779, 1736, 1693, 1650, 1607,
     1564, 1521, 1478, 1435, 1392, 1349, 1305, 1262, 1219, 1175, 1132, 1089,
     1045, 1002, 958, 915, 872, 828, 785, 741, 698, 654, 610, 567,
     523, 480, 436, 393, 349, 305, 262, 218, 175, 131, 87, 44,
     0
  >>

StepsPerYear == 4 * 360

\* cos of n quarter-degrees, any integer n
Cos(n) ==
    LET m == n % StepsPerYear IN
    IF m <= 360 THEN QuarterCos[m + 1]
    ELSE IF m <= 720 THEN -QuarterCos[720 - m + 1]
    ELSE IF m <= 1080 THEN -QuarterCos[m - 720 + 1]
    ELSE QuarterCos[StepsPerYear - m + 1]

(***************************************************************************)
(* CORE ALGORITHM (lines 169-276)                                          *)
(***************************************************************************)

\* The loop of lerp_curve from segment i on (lines 175-181).  The guard
\* x0 <= x < x1 makes x1 - x0 > 0, so the division is defined.
RECURSIVE lerp_segments(_, _, _)
lerp_segments(curve, x, i) ==
    IF i > Len(curve) - 1 THEN curve[Len(curve)][2]
    ELSE LET x0 == curve[i][1]
             y0 == curve[i][2]
             x1 == curve[i + 1][1]
             y1 == curve[i + 1][2]
         IN  IF x0 <= x /\ x < x1
             THEN y0 + ((x - x0) * (y1 - y0)) \div (x1 - x0)
             ELSE lerp_segments(curve, x, i + 1)

\* lerp_curve with the lower clamp of line 171 left out
lerp_curve_noLowClamp(curve, x) ==
    IF Len(curve) = 0 THEN "IndexError"
    ELSE IF x >= curve[Len(curve)][1] THEN curve[Len(curve)][2]
    ELSE lerp_segments(curve, x, 1)

\* lerp_curve (lines 169-181); curve[0] of an empty list raises IndexError
lerp_curve(curve, x) ==
    IF Len(curve) = 0 THEN "IndexError"
    ELSE IF x <= curve[1][1] THEN curve[1][2]
    ELSE IF x >= curve[Len(curve)][1] THEN curve[Len(curve)][2]
    ELSE lerp_segments(curve, x, 1)

\* lines 192-193 without the negation for the southern hemisphere
seasonal_shift_amplitude_noFlip(dist_from_equator, latitude) ==
    lerp_curve(SEASONAL_CURVE, dist_from_equator)

\* seasonal_shift_amplitude (lines 184-193)
seasonal_shift_amplitude(dist_from_equator, latitude) ==
    LET amplitude == lerp_curve(SEASONAL_CURVE, dist_from_equator)
    IN  IF latitude >= 0 THEN amplitude ELSE -amplitude

\* year_pct - WINTER_MID_TWELFTH_PCT of lines 208-214, in sample steps:
\* the year has StepsPerYear steps and 10/12 of it is WinterStep.
TicksPerStep == (TICKS_PER_DAY * DAYS_PER_YEAR) \div StepsPerYear
WinterStep == (10 * StepsPerYear) \div 12

\* math.cos(angle) of lines 208-214 at a tick, in units of 1/CosUnit
CosAtTick(abs_tick) ==
    LET year_step == (abs_tick % (TICKS_PER_DAY * DAYS_PER_YEAR)) \div TicksPerStep
    IN  Cos(year_step - WinterStep)

\* offset_from_season_cycle (lines 196-219), in units of
\* 1/(TempUnit*CosUnit) degree
offset_from_season_cycle(abs_tick, dist_from_equator, latitude) ==
    LET amplitude == seasonal_shift_amplitude(dist_from_equator, latitude)
    IN  CosAtTick(abs_tick) * (-amplitude)

\* get_temp_at_tick (lines 222-227), in units of 1/(TempUnit*CosUnit) degree
get_temp_at_tick(abs_tick, tile_temp, dist_from_equator, latitude) ==
    tile_temp * CosUnit
        + offset_from_season_cycle(abs_tick, dist_from_equator, latitude)

BASE_TICK == 30000
SAMPLES == 120

\* the tick of sample i of a twelfth (line 244)
SampleTick(twelfth, i) ==
    TICKS_PER_TWELFTH * twelfth + BASE_TICK + (i * TICKS_PER_TWELFTH) \div SAMPLES

\* the loop of lines 242-245 over the samples lo..hi of a twelfth: the sum
\* of the cosines at their ticks (summed by halves)
RECURSIVE SumCos(_, _, _)
SumCos(twelfth, lo, hi) ==
    IF lo > hi THEN 0
    ELSE IF lo = hi THEN CosAtTick(SampleTick(twelfth, lo))
    ELSE LET mid == (lo + hi) \div 2
         IN  SumCos(twelfth, lo, mid) + SumCos(twelfth, mid + 1, hi)

\* per twelfth, the sum of the cosines of its SAMPLES samples
TwelfthCosSum ==
    [twelfth \in 0..TWELFTHS_PER_YEAR |-> SumCos(twelfth, 0, SAMPLES - 1)]

\* average_temp_for_twelfth (lines 230-247).  The loop adds, for each
\* sample, tile_temp + cos * (-amplitude); neither tile_temp nor amplitude
\* depends on the sample, so the total is SAMPLES * tile_temp plus
\* (-amplitude) times the sum of the cosines.  The result total / SAMPLES
\* is kept as total, i.e. in units of 1/AvgUnit degree.
AvgUnit == TempUnit * CosUnit * SAMPLES

average_temp_for_twelfth(tile_temp, dist_from_equator, latitude, twelfth) ==
    SAMPLES * tile_temp * CosUnit
        + TwelfthCosSum[twelfth]
              * (-seasonal_shift_amplitude(dist_from_equator, latitude))

\* MIN_GROWTH_TEMP <= avg_temp <= MAX_GROWTH_TEMP (line 258)
InGrowthBand(avg_temp) ==
    /\ MIN_GROWTH_TEMP * (AvgUnit \div TempUnit) <= avg_temp
    /\ avg_temp <= MAX_GROWTH_TEMP * (AvgUnit \div TempUnit)

\* the loop of lines 256-259 from twelfth k on
RECURSIVE CountFrom(_, _, _, _, _)
CountFrom(tile_temp, dist_from_equator, latitude, k, last) ==
    IF k >= last THEN 0
    ELSE (IF InGrowthBand(average_temp_for_twelfth(tile_temp,
                              dist_from_equator, latitude, k))
          THEN 1 ELSE 0)
         + CountFrom(tile_temp, dist_from_equator, latitude, k + 1, last)

\* count_growing_twelfths looping over one twelfth too many
count_growing_twelfths_offByOne(tile_temp, dist_from_equator, latitude) ==
    CountFrom(tile_temp, dist_from_equator, latitude, 0, TWELFTHS_PER_YEAR + 1)

\* count_growing_twelfths (lines 250-260)
count_growing_twelfths(tile_temp, dist_from_equator, latitude) ==
    CountFrom(tile_temp, dist_from_equator, latitude, 0, TWELFTHS_PER_YEAR)

\* calculate_growing_days (lines 263-276)
calculate_growing_days(tile_temp, dist_from_equator, latitude) ==
    count_growing_twelfths(tile_temp, dist_from_equator, latitude)
        * DAYS_PER_TWELFTH

(***************************************************************************)
(* CACHE FILE UTILITIES (lines 283-338)                                    *)
(***************************************************************************)
Abs(n) == IF n < 0 THEN -n ELSE n

\* amplitude_to_dist_from_equator (lines 283-297), in units of 1/DistUnit
amplitude_to_dist_from_equator(amplitude0) ==
    LET amplitude == Abs(amplitude0) IN
    IF amplitude <= 3 * TempUnit THEN 0
    ELSE IF amplitude <= 4 * TempUnit
    THEN ((DistUnit \div 10) * (amplitude - 3 * TempUnit))
             \div (4 * TempUnit - 3 * TempUnit)
    ELSE DistUnit \div 10
         + (((9 * DistUnit) \div 10) * (amplitude - 4 * TempUnit))
               \div (28 * TempUnit - 4 * TempUnit)

\* estimate_latitude_from_amplitude (lines 300-307): dist * 90.0, in units
\* of 1/DistUnit degree of latitude
estimate_latitude_from_amplitude(amplitude, is_southern) ==
    LET dist == amplitude_to_dist_from_equator(amplitude)
        lat == dist * 90
    IN  IF is_southern THEN -lat ELSE lat

\* calculate_from_min_max (lines 310-328) with latitude = None.
\* min_temp + max_temp and max_temp - min_temp are even for every
\* temperature with at most one decimal, so the halvings are exact.
calculate_from_min_max(min_temp, max_temp) ==
    LET base_temp == (min_temp + max_temp) \div 2
        amplitude == (max_temp - min_temp) \div 2
        dist_from_equator == amplitude_to_dist_from_equator(amplitude)
        latitude == estimate_latitude_from_amplitude(amplitude, FALSE)
    IN  calculate_growing_days(base_temp, dist_from_equator, latitude)

\* is_year_round_growing (lines 331-338)
is_year_round_growing(min_temp, max_temp) ==
    min_temp >= MIN_GROWTH_TEMP /\ max_temp <= MAX_GROWTH_TEMP

(***************************************************************************)
(* Text.  A line is a sequence of tokens: a blank (" " or tab), a digit,   *)
(* one of the punctuation characters of Punct, or a maximal run of letters *)
(* and underscores taken as one token ("TILE", "temperature", "null").     *)
(***************************************************************************)
Space == {" ", "\t"}
Digits == {"0", "1", "2", "3", "4", "5", "6", "7", "8", "9"}
Punct == {":", ".", "-", "+", "[", "]", "#"}

DigitValue ==
    "0" :> 0 @@ "1" :> 1 @@ "2" :> 2 @@ "3" :> 3 @@ "4" :> 4 @@
    "5" :> 5 @@ "6" :> 6 @@ "7" :> 7 @@ "8" :> 8 @@ "9" :> 9

\* \w: a letter run or a digit
IsWordTok(t) == t \notin Space /\ t \notin Punct

\* str.rstrip() (line 366)
RECURSIVE rstrip(_)
rstrip(line) ==
    IF Len(line) > 0 /\ line[Len(line)] \in Space
    THEN rstrip(SubSeq(line, 1, Len(line) - 1))
    ELSE line

\* the first position from i on whose token is not in S (greedy S*)
RECURSIVE SkipWhile(_, _, _)
SkipWhile(line, i, S) ==
    IF i <= Len(line) /\ line[i] \in S THEN SkipWhile(line, i + 1, S) ELSE i

\* the first position from i on whose token is not a word token (greedy \w*)
RECURSIVE SkipWord(_, _)
SkipWord(line, i) ==
    IF i <= Len(line) /\ IsWordTok(line[i]) THEN SkipWord(line, i + 1) ELSE i

\* int() of a run of digits
RECURSIVE DigitsToNat(_)
DigitsToNat(ds) ==
    IF Len(ds) = 0 THEN 0
    ELSE 10 * DigitsToNat(SubSeq(ds, 1, Len(ds) - 1)) + DigitValue[ds[Len(ds)]]

RECURSIVE Pow10(_)
Pow10(n) == IF n = 0 THEN 1 ELSE 10 * Pow10(n - 1)

\* re.match(r'^TILE\s+(\d+)', line) (line 369)
HeaderMatch(line) ==
    /\ Len(line) >= 3
    /\ line[1] = "TILE"
    /\ line[2] \in Space
    /\ LET i == SkipWhile(line, 2, Space)
       IN  i <= Len(line) /\ line[i] \in Digits

\* int(tile_match.group(1)) (line 373)
HeaderId(line) ==
    LET i == SkipWhile(line, 2, Space)
        j == SkipWhile(line, i, Digits)
    IN  DigitsToNat(SubSeq(line, i, j - 1))

\* re.match(r'^\s+(\w+):\s*(.+)', line) (line 378): the positions of the key
\* and of the value.  The line is right-stripped, so a value that is not
\* empty ends in a token that is not a blank and \s* takes every blank
\* before it.
PropKeyStart(line) == SkipWhile(line, 1, Space)
PropColon(line) == SkipWord(line, PropKeyStart(line))
PropValueStart(line) == SkipWhile(line, PropColon(line) + 1, Space)

PropMatch(line) ==
    /\ Len(line) >= 1
    /\ line[1] \in Space
    /\ PropKeyStart(line) <= Len(line)
    /\ IsWordTok(line[PropKeyStart(line)])
    /\ PropColon(line) <= Len(line)
    /\ line[PropColon(line)] = ":"
    /\ PropValueStart(line) <= Len(line)

\* prop_match.groups() (line 380)
PropKey(line) == SubSeq(line, PropKeyStart(line), PropColon(line) - 1)
PropValue(line) == SubSeq(line, PropValueStart(line), Len(line))

(***************************************************************************)
(* Values.  A Python value of a tile is a record: tag is its type ("int",  *)
(* "float", "str" or "None"), num its number in units of 1/TempUnit, text  *)
(* its characters when it is a str.                                        *)
(***************************************************************************)
NoneVal == [tag |-> "None", num |-> 0, text |-> <<>>]
IntVal(n) == [tag |-> "int", num |-> n * TempUnit, text |-> <<>>]
FloatVal(units) == [tag |-> "float", num |-> units, text |-> <<>>]
StrVal(text) == [tag |-> "str", num |-> 0, text |-> text]

HasSign(text) == Len(text) >= 1 /\ text[1] \in {"-", "+"}
Unsigned(text) == IF HasSign(text) THEN SubSeq(text, 2, Len(text)) ELSE text
Sign(text) == IF Len(text) >= 1 /\ text[1] = "-" THEN -1 ELSE 1

\* int(value) succeeds: an optional sign and digits
IsIntText(text) ==
    LET body == Unsigned(text)
    IN  Len(body) >= 1 /\ \A i \in 1..Len(body) : body[i] \in Digits

\* float(value) succeeds: an optional sign, digits, one point, digits, with
\* a digit on at least one side.  (Exponents, underscores, inf and nan are
\* accepted by Python too; no text below uses them.)
IsFloatText(text) ==
    LET body == Unsigned(text)
        p == SkipWhile(body, 1, Digits)
        q == SkipWhile(body, p + 1, Digits)
    IN  /\ p <= Len(body)
        /\ body[p] = "."
        /\ q = Len(body) + 1
        /\ Len(body) >= 2

\* float(value) in units of 1/TempUnit (rounded down past that precision)
FloatUnits(text) ==
    LET body == Unsigned(text)
        p == SkipWhile(body, 1, Digits)
        whole == DigitsToNat(SubSeq(body, 1, p - 1))
        frac == SubSeq(body, p + 1, Len(body))
    IN  Sign(text) * (whole * TempUnit
                      + (DigitsToNat(frac) * TempUnit) \div Pow10(Len(frac)))

\* lines 382-388 without the test of line 383: every number is a float
Coerce_floatFirst(value) ==
    IF IsFloatText(value) THEN FloatVal(FloatUnits(value))
    ELSE IF IsIntText(value)
    THEN FloatVal(Sign(value) * DigitsToNat(Unsigned(value)) * TempUnit)
    ELSE StrVal(value)

\* the try/except of lines 382-388
Coerce(value) ==
    IF \E i \in 1..Len(value) : value[i] = "."
    THEN IF IsFloatText(value) THEN FloatVal(FloatUnits(value))
         ELSE StrVal(value)
    ELSE IF IsIntText(value)
         THEN IntVal(Sign(value) * DigitsToNat(Unsigned(value)))
         ELSE StrVal(value)

(***************************************************************************)
(* Dicts.  A tile's data is a function from keys to values; the dict of    *)
(* tiles keeps its insertion order, which the loop of analyze_cache        *)
(* follows, so it is a sequence of <<tile id, data>> pairs.                *)
(***************************************************************************)
EmptyDict == <<>>

\* d[key] = value
DictPut(d, key, value) ==
    [k \in DOMAIN d \cup {key} |-> IF k = key THEN value ELSE d[k]]

\* d.get(key)
Get(d, key) == IF key \in DOMAIN d THEN d[key] ELSE NoneVal

TileIds(ts) == { ts[i][1] : i \in 1..Len(ts) }

\* tiles[tile_id] = data in a mapping kept in ascending order of tile_id
TilesPut_ascending(ts, tile_id, data) ==
    LET before == SelectSeq(ts, LAMBDA e : e[1] < tile_id)
        after == SelectSeq(ts, LAMBDA e : e[1] > tile_id)
    IN  before \o << <<tile_id, data>> >> \o after

\* tiles[tile_id] = data: a new key goes last, an old key keeps its place
TilesPut(ts, tile_id, data) ==
    IF tile_id \in TileIds(ts)
    THEN [i \in 1..Len(ts) |->
              IF ts[i][1] = tile_id THEN <<tile_id, data>> ELSE ts[i]]
    ELSE Append(ts, <<tile_id, data>>)

(***************************************************************************)
(* CACHE FILE PARSER (lines 345-394)                                       *)
(***************************************************************************)
\* current_tile = None
NoTile == -1

\* lines 371-372: if current_tile is not None: tiles[current_tile] = ...
Flush(ts, tile, data) ==
    IF tile # NoTile THEN TilesPut(ts, tile, data) ELSE ts

\* lines 390-392 left out: the block open at the end of input is lost
FinalFlush_forgotten(ts, tile, data) == ts

\* lines 390-392: "Don't forget last tile"
FinalFlush(ts, tile, data) ==
    IF tile # NoTile THEN TilesPut(ts, tile, data) ELSE ts

\* one round of the loop of lines 365-388 on a state
\* [tile, data, tiles] of the parser
ParseLine(st, raw) ==
    LET line == rstrip(raw) IN
    IF HeaderMatch(line)
    THEN [tile |-> HeaderId(line), data |-> EmptyDict,
          tiles |-> Flush(st.tiles, st.tile, st.data)]
    ELSE IF PropMatch(line) /\ st.tile # NoTile
    THEN [st EXCEPT !.data = DictPut(st.data, PropKey(line),
                                     Coerce(PropValue(line)))]
    ELSE st

(***************************************************************************)
(* analyze_cache (lines 397-492)                                           *)
(***************************************************************************)
Key(word) == <<word>>

NullText == <<"null">>

\* v == text, for a str literal text
EqStr(v, text) == v.tag = "str" /\ v.text = text

\* bool(v) of a value a tile can hold
Truthy(v) ==
    CASE v.tag = "None" -> FALSE
      [] v.tag = "str" -> Len(v.text) > 0
      [] OTHER -> v.num # 0

\* filter_criteria: given says whether the argument is a dict (not None);
\* dict maps the keys it holds to their values.
NoCriteria == [given |-> FALSE, dict |-> <<>>]
Criteria(d) == [given |-> TRUE, dict |-> d]

\* DEFAULT_FILTER_CRITERIA (lines 60-65)
DEFAULT_FILTER_CRITERIA ==
    Criteria([hilliness |-> <<"Mountainous">>, has_river |-> TRUE,
              has_road |-> TRUE, growing_days_min |-> 60])

\* if filter_criteria: (lines 450, 487)
CriteriaTruthy(c) == c.given /\ DOMAIN c.dict # {}

\* filter_criteria.get('hilliness') is truthy (line 452)
WantsHilliness(c) == "hilliness" \in DOMAIN c.dict /\ Len(c.dict.hilliness) > 0
\* filter_criteria.get('has_river') is truthy (line 458)
WantsRiver(c) == "has_river" \in DOMAIN c.dict /\ c.dict.has_river
\* filter_criteria.get('has_road') is truthy (line 463)
WantsRoad(c) == "has_road" \in DOMAIN c.dict /\ c.dict.has_road
\* filter_criteria.get('growing_days_min') is truthy (line 468)
WantsGrowingDays(c) ==
    "growing_days_min" \in DOMAIN c.dict /\ c.dict.growing_days_min # 0

\* line 431 with "and" for "or": skipped only when all three are missing
LacksRequired_all(temp, min_t, max_t) ==
    temp.tag = "None" /\ min_t.tag = "None" /\ max_t.tag = "None"

\* line 431: temp is None or min_t is None or max_t is None
LacksRequired(temp, min_t, max_t) ==
    temp.tag = "None" \/ min_t.tag = "None" \/ max_t.tag = "None"

\* calculate_from_min_max(min_t, max_t) raises TypeError (lines 320-321):
\* a str plus or minus a number, or a str divided by 2
RaisesTypeError(min_t, max_t) == min_t.tag = "str" \/ max_t.tag = "str"

\* lines 442 and 444: the statistics' test of a river or road
CountsAsPresent(v) == Truthy(v) /\ ~EqStr(v, NullText)

\* lines 459 and 464 testing only for a missing key
PassesPresence_keyOnly(v) == v.tag # "None"

\* lines 459 and 464: not (value is None or value == 'null')
PassesPresence(v) == ~(v.tag = "None" \/ EqStr(v, NullText))

\* lines 450-469 with "or" for "and": one passing check is enough
PassesFilter_anyCheck(c, data, growing_days) ==
    \/ WantsHilliness(c) /\ EqStr(Get(data, Key("hilliness")), c.dict.hilliness)
    \/ WantsRiver(c) /\ PassesPresence(Get(data, Key("Rivers")))
    \/ WantsRoad(c) /\ PassesPresence(Get(data, Key("Roads")))
    \/ WantsGrowingDays(c) /\ ~(growing_days < c.dict.growing_days_min)

\* lines 450-469: the tile is not skipped by a "continue" of the filter
PassesFilter(c, data, growing_days) ==
    /\ WantsHilliness(c) => EqStr(Get(data, Key("hilliness")), c.dict.hilliness)
    /\ WantsRiver(c) => PassesPresence(Get(data, Key("Rivers")))
    /\ WantsRoad(c) => PassesPresence(Get(data, Key("Roads")))
    /\ WantsGrowingDays(c) => ~(growing_days < c.dict.growing_days_min)

ResultKeys ==
    {Key("tile_id"), Key("growing_days"), Key("temp"), Key("min_temp"),
     Key("max_temp")}

\* lines 471-478 without line 477: the five fields only
MakeResult_ownFieldsOnly(tile_id, growing_days, data) ==
    [k \in ResultKeys |->
        CASE k = Key("tile_id") -> IntVal(tile_id)
          [] k = Key("growing_days") -> IntVal(growing_days)
          [] k = Key("temp") -> Get(data, Key("temperature"))
          [] k = Key("min_temp") -> Get(data, Key("MinTemperature"))
          [] k = Key("max_temp") -> Get(data, Key("MaxTemperature"))]

\* the dict of lines 471-478: the five fields, then **data over them
MakeResult(tile_id, growing_days, data) ==
    LET own == [k \in ResultKeys |->
                  CASE k = Key("tile_id") -> IntVal(tile_id)
                    [] k = Key("growing_days") -> IntVal(growing_days)
                    [] k = Key("temp") -> Get(data, Key("temperature"))
                    [] k = Key("min_temp") -> Get(data, Key("MinTemperature"))
                    [] k = Key("max_temp") -> Get(data, Key("MaxTemperature"))]
    IN  [k \in ResultKeys \cup DOMAIN data |->
             IF k \in DOMAIN data THEN data[k] ELSE own[k]]

\* the growing days analyze_cache derives for a tile (line 434)
TileGrowingDays(data) ==
    calculate_from_min_max(Get(data, Key("MinTemperature")).num,
                           Get(data, Key("MaxTemperature")).num)

NoStats == [with_river |-> 0, with_road |-> 0, mountainous |-> 0]

Running == [kind |-> "running", exc |-> "", code |-> 0, returns |-> ""]
Raised(exc) == [kind |-> "raise", exc |-> exc, code |-> 1, returns |-> ""]
Exited(code) == [kind |-> "exit", exc |-> "", code |-> code, returns |-> ""]
\* the process ends with code after main has printed what and nothing else
Printed(what, code) == [kind |-> "exit", exc |-> "", code |-> code, returns |-> what]
Returned(what) == [kind |-> "return", exc |-> "", code |-> 0, returns |-> what]

(***************************************************************************)
(* The program.  pc is "start" (main or a caller about to run), "parse"    *)
(* (inside the loop of parse_cache_file), "parsed" (parse_cache_file has   *)
(* returned), "loop" (inside the loop of analyze_cache), "returned"        *)
(* (analyze_cache has returned), "exit" (the process has ended) or         *)
(* "raised" (an exception has ended the run).                              *)
(***************************************************************************)
\* the command line as argparse leaves it (lines 601-608); entry "api" is a
\* direct call of analyze_cache or parse_cache_file with no command line;
\* --verbose changes only what is printed and is left out
MainArgs ==
    [entry : {"main"}, about : BOOLEAN, test : BOOLEAN, filter : BOOLEAN,
     cache_file : BOOLEAN]

ApiCall ==
    [entry |-> "api", about |-> FALSE, test |-> FALSE, filter |-> FALSE,
     cache_file |-> TRUE]

NoCall == [fn |-> "none"]

\* the state of the program while no file is being processed
ProgIdle ==
    /\ pc = "idle" /\ argv = ApiCall /\ lineno = 0 /\ file = <<>>
    /\ current_tile = NoTile /\ current_data = EmptyDict /\ tiles = <<>>
    /\ criteria = NoCriteria /\ idx = 0 /\ results = <<>>
    /\ year_round_count = 0 /\ stats = NoStats /\ outcome = Running

ProgStart(entries) ==
    /\ pc = "start" /\ argv \in entries
    /\ lineno = 0 /\ file = <<>>
    /\ current_tile = NoTile /\ current_data = EmptyDict /\ tiles = <<>>
    /\ criteria = NoCriteria /\ idx = 0 /\ results = <<>>
    /\ year_round_count = 0 /\ stats = NoStats /\ outcome = Running

parseVars == <<lineno, file, current_tile, current_data, tiles>>
loopVars == <<criteria, idx, results, year_round_count, stats>>

\* run_tests (lines 495-571): all_passed
TestsPass ==
    /\ calculate_growing_days(25 * TempUnit, 0, 0) = 60
    /\ calculate_growing_days(0, DistUnit, 90 * DistUnit) < 60
    /\ is_year_round_growing(10 * TempUnit, 35 * TempUnit)
    /\ ~is_year_round_growing(5 * TempUnit, 35 * TempUnit)
    /\ ~is_year_round_growing(10 * TempUnit, 45 * TempUnit)
    /\ calculate_from_min_max(10 * TempUnit, 35 * TempUnit) = 60
    /\ calculate_from_min_max(-20 * TempUnit, 15 * TempUnit) < 60

\* main, lines 610-612: --about
MainAbout ==
    /\ pc = "start" /\ argv.entry = "main" /\ argv.about
    /\ pc' = "exit" /\ outcome' = Printed("ABOUT_TEXT", 0)
    /\ UNCHANGED <<argv, parseVars, loopVars, call, ret>>

\* lines 614-616 placed before lines 610-612: --test wins over --about
MainTest_beforeAbout ==
    /\ pc = "start" /\ argv.entry = "main" /\ argv.test
    /\ pc' = "exit"
    /\ outcome' = Printed("run_tests", IF TestsPass THEN 0 ELSE 1)
    /\ UNCHANGED <<argv, parseVars, loopVars, call, ret>>

\* main, lines 614-616: --test (run_tests exits 1 itself when a test fails)
MainTest ==
    /\ pc = "start" /\ argv.entry = "main" /\ ~argv.about /\ argv.test
    /\ pc' = "exit"
    /\ outcome' = Printed("run_tests", IF TestsPass THEN 0 ELSE 1)
    /\ UNCHANGED <<argv, parseVars, loopVars, call, ret>>

\* main, lines 618-620: no cache file
MainUsage ==
    /\ pc = "start" /\ argv.entry = "main" /\ ~argv.about /\ ~argv.test
    /\ ~argv.cache_file
    /\ pc' = "exit" /\ outcome' = Printed("print_help", 1)
    /\ UNCHANGED <<argv, parseVars, loopVars, call, ret>>

\* main, lines 623-637, or a caller: analyze_cache is entered and opens
\* the file (lines 415, 360-364)
EnterAnalyze ==
    /\ pc = "start"
    /\ argv.entry = "main" => (~argv.about /\ ~argv.test /\ argv.cache_file)
    /\ pc' = "parse"
    /\ UNCHANGED <<argv, parseVars, loopVars, outcome, call, ret>>

\* parse_cache_file, lines 365-388: the next line of the file is raw.
\* keep says whether the lines read are remembered in file.
ReadLine(raw, keep) ==
    /\ pc = "parse"
    /\ LET st == ParseLine([tile |-> current_tile, data |-> current_data,
                            tiles |-> tiles], raw)
       IN  /\ current_tile' = st.tile
           /\ current_data' = st.data
           /\ tiles' = st.tiles
    /\ lineno' = lineno + 1
    /\ file' = IF keep THEN Append(file, raw) ELSE file
    /\ UNCHANGED <<pc, argv, loopVars, outcome, call, ret>>

\* parse_cache_file, lines 390-394: end of input
EndOfFile ==
    /\ pc = "parse"
    /\ tiles' = FinalFlush(tiles, current_tile, current_data)
    /\ pc' = "parsed"
    /\ lineno' = 0
    /\ current_tile' = NoTile /\ current_data' = EmptyDict
    /\ UNCHANGED <<argv, file, loopVars, outcome, call, ret>>

\* analyze_cache, lines 416-424: the loop starts.  main passes
\* DEFAULT_FILTER_CRITERIA or nothing (lines 624, 637); another caller
\* passes any criteria of cs.  The argument is first read here.
BeginLoop(cs) ==
    /\ pc = "parsed"
    /\ criteria' \in IF argv.entry = "main"
                     THEN {IF argv.filter THEN DEFAULT_FILTER_CRITERIA
                           ELSE NoCriteria}
                     ELSE cs
    /\ pc' = "loop"
    /\ idx' = 0 /\ results' = <<>> /\ year_round_count' = 0 /\ stats' = NoStats
    /\ UNCHANGED <<argv, parseVars, outcome, call, ret>>

\* analyze_cache, lines 426-478: one round of the loop, on the next tile
LoopTile ==
    /\ pc = "loop" /\ idx < Len(tiles)
    /\ LET tile_id == tiles[idx + 1][1]
           data == tiles[idx + 1][2]
           temp == Get(data, Key("temperature"))
           min_t == Get(data, Key("MinTemperature"))
           max_t == Get(data, Key("MaxTemperature"))
           growing_days == TileGrowingDays(data)
       IN  IF LacksRequired(temp, min_t, max_t)
           THEN /\ idx' = idx + 1
                /\ UNCHANGED <<pc, outcome, results, year_round_count, stats>>
           ELSE IF RaisesTypeError(min_t, max_t)
           THEN /\ pc' = "raised" /\ outcome' = Raised("TypeError")
                /\ UNCHANGED <<idx, results, year_round_count, stats>>
           ELSE /\ idx' = idx + 1
                /\ year_round_count' =
                       year_round_count + (IF growing_days = 60 THEN 1 ELSE 0)
                /\ stats' =
                       [with_river |-> stats.with_river
                            + (IF CountsAsPresent(Get(data, Key("Rivers")))
                               THEN 1 ELSE 0),
                        with_road |-> stats.with_road
                            + (IF CountsAsPresent(Get(data, Key("Roads")))
                               THEN 1 ELSE 0),
                        mountainous |-> stats.mountainous
                            + (IF EqStr(Get(data, Key("hilliness")),
                                        <<"Mountainous">>)
                               THEN 1 ELSE 0)]
                /\ results' =
                       IF CriteriaTruthy(criteria)
                          /\ PassesFilter(criteria, data, growing_days)
                       THEN Append(results,
                                   MakeResult(tile_id, growing_days, data))
                       ELSE results
                /\ UNCHANGED <<pc, outcome>>
    /\ UNCHANGED <<argv, parseVars, criteria, call, ret>>

\* analyze_cache, lines 480-492: the statistics are printed (dividing by
\* len(tiles)) and the results, or the tiles, are returned
Summary ==
    /\ pc = "loop" /\ idx = Len(tiles)
    /\ IF Len(tiles) = 0
       THEN pc' = "raised" /\ outcome' = Raised("ZeroDivisionError")
       ELSE /\ pc' = "returned"
            /\ outcome' = Returned(IF CriteriaTruthy(criteria)
                                   THEN "results" ELSE "tiles")
    /\ UNCHANGED <<argv, parseVars, loopVars, call, ret>>

\* f"{r['temp']:.1f}" and its like (line 631) raise ValueError on a str
FormatRaises(r) ==
    \E k \in {Key("temp"), Key("min_temp"), Key("max_temp")} : r[k].tag = "str"

\* main, lines 626-637: the matching tiles are printed (the first 50)
MainReport ==
    /\ pc = "returned" /\ argv.entry = "main"
    /\ IF argv.filter
          /\ \E i \in 1..Len(results) : i <= 50 /\ FormatRaises(results[i])
       THEN pc' = "raised" /\ outcome' = Raised("ValueError")
       ELSE pc' = "exit" /\ outcome' = Exited(0)
    /\ UNCHANGED <<argv, parseVars, loopVars, call, ret>>

\* the returned list as a mapping tile_id -> record, in the list's order
ResultsAsTiles ==
    [r \in 1..Len(results) |->
        <<results[r][Key("tile_id")].num \div TempUnit, results[r]>>]

\* a caller filters the returned list again: the loop of analyze_cache
\* (lines 418-478) starts over on the records of the list, with the same
\* criteria.  The list of the first pass is remembered in ret.
Refilter ==
    /\ pc = "returned" /\ outcome = Returned("results")
    /\ argv.entry = "api" /\ call = NoCall
    /\ call' = [fn |-> "analyze_cache"]
    /\ ret' = results
    /\ tiles' = ResultsAsTiles
    /\ pc' = "loop" /\ outcome' = Running
    /\ idx' = 0 /\ results' = <<>> /\ year_round_count' = 0 /\ stats' = NoStats
    /\ UNCHANGED <<argv, lineno, file, current_tile, current_data, criteria>>
(***************************************************************************)
(* Input.  The lines a snapshot file is drawn from.                        *)
(***************************************************************************)
DigitTok ==
    0 :> "0" @@ 1 :> "1" @@ 2 :> "2" @@ 3 :> "3" @@ 4 :> "4" @@
    5 :> "5" @@ 6 :> "6" @@ 7 :> "7" @@ 8 :> "8" @@ 9 :> "9"

\* "TILE <n>" for one digit n
HeaderLine(n) == <<"TILE", " ", DigitTok[n]>>
\* "  <key>: <value>"
PropLine(key, value) == <<" ", " ", key, ":", " ">> \o value

Placeholder == <<"[", ".", ".", ".", "]">>

(***************************************************************************)
(* Spec: the whole program on files of several tiles.  The tiles carry the *)
(* three temperature keys only, so the files can be long.                  *)
(***************************************************************************)
MaxLines == 8
MaxTileId == 2

Lines ==
    { HeaderLine(n) : n \in 1..MaxTileId }
        \cup { PropLine("temperature", <<"2", "0", ".", "5">>),
               PropLine("MinTemperature", <<"1", "0">>),
               PropLine("MaxTemperature", <<"3", "0">>) }

CallerCriteria ==
    { NoCriteria,
      Criteria(<<>>),
      Criteria([has_river |-> FALSE]),
      Criteria([growing_days_min |-> 60]) }

Init == ProgStart(MainArgs \cup {ApiCall}) /\ call = NoCall /\ ret = None

Next ==
    \/ MainAbout
    \/ MainTest
    \/ MainUsage
    \/ EnterAnalyze
    \/ \E raw \in Lines : lineno < MaxLines /\ ReadLine(raw, FALSE)
    \/ EndOfFile
    \/ BeginLoop(CallerCriteria)
    \/ LoopTile
    \/ Summary
    \/ MainReport

Spec == Init /\ [][Next]_vars

(***************************************************************************)
(* SpecBlock: analyze_cache on files of one block whose properties are     *)
(* drawn from every kind of value the filter distinguishes.                *)
(***************************************************************************)
MaxBlockLines == 7

BlockLines ==
    { HeaderLine(7) }
        \cup { PropLine("temperature", v) :
                 v \in { <<"2", "0", ".", "5">>, NullText } }
        \cup { PropLine("MinTemperature", v) :
                 v \in { <<"1", "0">>, <<"-", "2", "0">>, NullText } }
        \cup { PropLine("MaxTemperature", v) :
                 v \in { <<"3", "0">>, NullText } }
        \cup { PropLine("hilliness", v) :
                 v \in { <<"Mountainous">>, <<"Flat">> } }
        \cup { PropLine("Rivers", v) : v \in { Placeholder, NullText, <<"0">> } }
        \cup { PropLine("Roads", v) : v \in { Placeholder, NullText } }

CriteriaKeys == {"hilliness", "has_river", "has_road", "growing_days_min"}

\* every dict over the four keys whose entries are the default filter's,
\* and two dicts whose only entry is falsy
BlockCriteria ==
    { NoCriteria, Criteria([has_river |-> FALSE]),
      Criteria([growing_days_min |-> 0]) }
        \cup { Criteria([k \in S |-> DEFAULT_FILTER_CRITERIA.dict[k]]) :
                 S \in SUBSET CriteriaKeys }

InitBlock == ProgStart({ApiCall}) /\ call = NoCall /\ ret = None

NextBlock ==
    \/ EnterAnalyze
    \/ \E raw \in BlockLines :
           /\ lineno < MaxBlockLines
           /\ HeaderMatch(raw) => current_tile = NoTile
           /\ ReadLine(raw, FALSE)
    \/ EndOfFile
    \/ BeginLoop(BlockCriteria)
    \/ LoopTile
    \/ Summary

SpecBlock == InitBlock /\ [][NextBlock]_vars

(***************************************************************************)
(* SpecRefilter: SpecBlock with a caller that filters the returned list a  *)
(* second time.                                                            *)
(***************************************************************************)
NextRefilter == NextBlock \/ Refilter

SpecRefilter == InitBlock /\ [][NextRefilter]_vars

(***************************************************************************)
(* SpecOpaque: analyze_cache on files of one block that has, besides the   *)
(* temperatures, keys the program does not know.                           *)
(***************************************************************************)
MaxOpaqueLines == 6

OpaqueLines ==
    { HeaderLine(7),
      PropLine("temperature", <<"2", "0", ".", "5">>),
      PropLine("MinTemperature", <<"1", "0">>),
      PropLine("MaxTemperature", <<"3", "0">>),
      PropLine("PrimaryBiome", <<"Desert">>),
      PropLine("tile_id", <<"9">>),
      PropLine("growing_days", <<"0">>),
      PropLine("temp", NullText) }

NextOpaque ==
    \/ EnterAnalyze
    \/ \E raw \in OpaqueLines :
           /\ lineno < MaxOpaqueLines
           /\ HeaderMatch(raw) => current_tile = NoTile
           /\ ReadLine(raw, FALSE)
    \/ EndOfFile
    \/ BeginLoop(CallerCriteria)
    \/ LoopTile
    \/ Summary

SpecOpaque == InitBlock /\ [][NextOpaque]_vars

(***************************************************************************)
(* SpecParse: parse_cache_file on every file of up to MaxParseLines lines, *)
(* the lines read being remembered.                                        *)
(***************************************************************************)
MaxParseLines == 5

ParseLines ==
    { HeaderLine(1),
      <<"TILE", " ", " ", "2", " ">>,
      PropLine("temperature", <<"2", "0", ".", "5">>),
      <<"\t", "MinTemperature", ":", "-", "2", "0">>,
      PropLine("Rivers", NullText),
      PropLine("Rivers", Placeholder),
      <<"temperature", ":", " ", "7">> }

InitParse == ProgStart({ApiCall}) /\ call = NoCall /\ ret = None

NextParse ==
    \/ EnterAnalyze
    \/ \E raw \in ParseLines : lineno < MaxParseLines /\ ReadLine(raw, TRUE)
    \/ EndOfFile

SpecParse == InitParse /\ [][NextParse]_vars

(***************************************************************************)
(* Study of the growing-days engine: one call of calculate_from_min_max or *)
(* calculate_growing_days on inputs drawn from a grid, or one round of the *)
(* sample loop of average_temp_for_twelfth.                                *)
(***************************************************************************)
MinGridTemp == 30
MaxGridTemp == 46

\* temperatures -30.0 .. 46.0 in steps of half a degree
TempGrid ==
    { t * (TempUnit \div 2) : t \in (-2 * MinGridTemp)..(2 * MaxGridTemp) }

\* base temperatures in steps of 2.5 degrees
CoarseTempGrid == { t \in TempGrid : t % (5 * (TempUnit \div 2)) = 0 }

\* equator distances on which the seasonal curve is exact in fixed point:
\* -0.05, 0 .. 0.075, 0.1 .. 1.0, 1.15
DistGrid ==
    { -(DistUnit \div 20) }
        \cup { (DistUnit \div 40) * j : j \in 0..3 }
        \cup { DistUnit \div 10 + ((3 * DistUnit) \div 20) * j : j \in 0..7 }

LatGrid == { -45 * DistUnit, 0, 45 * DistUnit }

InitCalc == ProgIdle /\ call = NoCall /\ ret = None

CallFromMinMax ==
    /\ call = NoCall
    /\ \E mn \in TempGrid, mx \in TempGrid :
        /\ call' = [fn |-> "calculate_from_min_max",
                    min_temp |-> mn, max_temp |-> mx]
        /\ ret' = calculate_from_min_max(mn, mx)
    /\ UNCHANGED progVars

CallGrowingDays ==
    /\ call = NoCall
    /\ \E t \in CoarseTempGrid, d \in DistGrid, lat \in LatGrid :
        /\ call' = [fn |-> "calculate_growing_days", tile_temp |-> t,
                    dist_from_equator |-> d, latitude |-> lat]
        /\ ret' = calculate_growing_days(t, d, lat)
    /\ UNCHANGED progVars

\* average_temp_for_twelfth, line 244: the tick of round i of the loop
SampleLoopRound ==
    /\ call = NoCall
    /\ \E twelfth \in 0..(TWELFTHS_PER_YEAR - 1), i \in 0..(SAMPLES - 1) :
        /\ call' = [fn |-> "average_temp_for_twelfth", twelfth |-> twelfth,
                    i |-> i]
        /\ ret' = SampleTick(twelfth, i)
    /\ UNCHANGED progVars

NextCalc == CallFromMinMax \/ CallGrowingDays \/ SampleLoopRound

SpecCalc == InitCalc /\ [][NextCalc]_vars

\* the arguments calculate_growing_days is called with, directly or through
\* calculate_from_min_max (lines 320-328)
EngineArgs ==
    IF call.fn = "calculate_growing_days"
    THEN <<call.tile_temp, call.dist_from_equator, call.latitude>>
    ELSE LET amplitude == (call.max_temp - call.min_temp) \div 2
         IN  << (call.min_temp + call.max_temp) \div 2,
                amplitude_to_dist_from_equator(amplitude),
                estimate_latitude_from_amplitude(amplitude, FALSE) >>

\* C7: whenever is_year_round_growing(min, max) holds with min <= max,
\* calculate_from_min_max(min, max) returns 60.
C7_ShortcutImpliesSixty ==
    (/\ call.fn = "calculate_from_min_max"
     /\ call.min_temp <= call.max_temp
     /\ is_year_round_growing(call.min_temp, call.max_temp))
        => ret = 60

\* C8: calculate_growing_days and calculate_from_min_max return a multiple
\* of 5 in 0..60, namely 5 times the number of twelfths k in 0..11 whose
\* average temperature lies in the band [6, 42].
C8_MultipleOfFive ==
    call.fn \in {"calculate_growing_days", "calculate_from_min_max"}
        => /\ ret \in { 5 * n : n \in 0..12 }
           /\ ret = 5 * Cardinality(
                  { k \in 0..11 :
                      InGrowthBand(average_temp_for_twelfth(
                          EngineArgs[1], EngineArgs[2], EngineArgs[3], k)) })

\* C8 witness: both functions have returned a partial season (some twelfths
\* in the band, some not); stated for calculate_from_min_max.
C8_Witness ==
    /\ call.fn = "calculate_from_min_max"
    /\ ret = 35

(***************************************************************************)
(* Study of the two hemispheres.  The engine computes in binary floating   *)
(* point: math.cos at two angles half a turn apart, the 120 additions and  *)
(* the division round differently, so a computed average is its exact      *)
(* value plus a rounding error far below 1/AvgUnit degree.  A float        *)
(* average is kept as the pair of the exact value and the sign err of its  *)
(* rounding error; which sign the platform's arithmetic produces for given *)
(* arguments is left open.  The base temperature is given as total_temp =  *)
(* SAMPLES * tile_temp * CosUnit so that it can lie off the TempUnit grid. *)
(***************************************************************************)
MaxRounding == 1
MaxEdgeOffset == 1

RoundingErrors == (-MaxRounding)..MaxRounding

\* average_temp_for_twelfth (lines 230-247) as the float it returns
average_temp_float(total_temp, dist_from_equator, latitude, twelfth, err) ==
    [exact |-> total_temp
                  + TwelfthCosSum[twelfth]
                        * (-seasonal_shift_amplitude(dist_from_equator, latitude)),
     err |-> err]

LowEdge == MIN_GROWTH_TEMP * (AvgUnit \div TempUnit)
HighEdge == MAX_GROWTH_TEMP * (AvgUnit \div TempUnit)

\* MIN_GROWTH_TEMP <= avg_temp <= MAX_GROWTH_TEMP (line 258) on a float
InGrowthBandFloat(avg_temp) ==
    /\ LowEdge < avg_temp.exact \/ (LowEdge = avg_temp.exact /\ avg_temp.err >= 0)
    /\ avg_temp.exact < HighEdge \/ (avg_temp.exact = HighEdge /\ avg_temp.err <= 0)

\* count_growing_twelfths and calculate_growing_days (lines 250-276) on
\* floats whose rounding errors have the sign err
growing_days_float(total_temp, dist_from_equator, latitude, err) ==
    Cardinality({ k \in 0..(TWELFTHS_PER_YEAR - 1) :
                    InGrowthBandFloat(average_temp_float(
                        total_temp, dist_from_equator, latitude, k, err)) })
        * DAYS_PER_TWELFTH

\* equator distances up to 0.55 (amplitudes up to 16 degrees)
HemisphereDistGrid ==
    { d \in DistGrid : 0 <= d /\ d <= (11 * DistUnit) \div 20 }

\* base temperatures: the coarse grid, and for each twelfth and band edge
\* the temperatures that put the northern average of the twelfth on the
\* edge or within MaxEdgeOffset/AvgUnit degree of it
HemisphereTemps(d) ==
    { SAMPLES * t * CosUnit : t \in CoarseTempGrid }
        \cup { edge + offset
                   + TwelfthCosSum[k] * seasonal_shift_amplitude(d, 45 * DistUnit) :
               k \in 0..(TWELFTHS_PER_YEAR - 1), edge \in {LowEdge, HighEdge},
               offset \in (-MaxEdgeOffset)..MaxEdgeOffset }

InitHemisphere == ProgIdle /\ call = NoCall /\ ret = None

\* calculate_growing_days is called for latitude 45 and for latitude -45
\* with the same base temperature and equator distance
CallBothHemispheres ==
    /\ call = NoCall
    /\ \E d \in HemisphereDistGrid, err_north, err_south \in RoundingErrors :
         \E total_temp \in HemisphereTemps(d) :
           /\ call' = [fn |-> "calculate_growing_days", total_temp |-> total_temp,
                       dist_from_equator |-> d,
                       err_north |-> err_north, err_south |-> err_south]
           /\ ret' =
                [north |-> [k \in 0..(TWELFTHS_PER_YEAR - 1) |->
                              average_temp_float(total_temp, d, 45 * DistUnit,
                                                 k, err_north)],
                 south |-> [k \in 0..(TWELFTHS_PER_YEAR - 1) |->
                              average_temp_float(total_temp, d, -45 * DistUnit,
                                                 k, err_south)],
                 north_days |-> growing_days_float(total_temp, d,
                                                   45 * DistUnit, err_north),
                 south_days |-> growing_days_float(total_temp, d,
                                                   -45 * DistUnit, err_south)]
    /\ UNCHANGED progVars

NextHemisphere == CallBothHemispheres

SpecHemisphere == InitHemisphere /\ [][NextHemisphere]_vars

(***************************************************************************)
(* Study of the curve functions: one call of lerp_curve or of              *)
(* amplitude_to_dist_from_equator.                                         *)
(***************************************************************************)
MaxCurveLen == 3
MaxCurveX == 3
MaxCurveY == 2
CurveYUnit == 12

CurvePoints == (0..MaxCurveX) \X { CurveYUnit * j : j \in 0..MaxCurveY }

\* non-empty curves whose breakpoints are sorted ascending by x
IsSorted(curve) ==
    \A i \in 1..(Len(curve) - 1) : curve[i][1] <= curve[i + 1][1]

Curves ==
    UNION { { c \in [1..n -> CurvePoints] : IsSorted(c) } : n \in 1..MaxCurveLen }

MaxAmplitude == 40

\* amplitudes -40.0 .. 40.0 in steps of half a degree
AmplitudeGrid ==
    { a * (TempUnit \div 2) : a \in (-2 * MaxAmplitude)..(2 * MaxAmplitude) }

InitCurve == ProgIdle /\ call = NoCall /\ ret = None

CallLerpCurve ==
    /\ call = NoCall
    /\ \E c \in Curves, x \in -1..(MaxCurveX + 1) :
        /\ call' = [fn |-> "lerp_curve", curve |-> c, x |-> x]
        /\ ret' = lerp_curve(c, x)
    /\ UNCHANGED progVars

CallLerpSeasonal ==
    /\ call = NoCall
    /\ \E d \in DistGrid :
        /\ call' = [fn |-> "lerp_curve", curve |-> SEASONAL_CURVE, x |-> d]
        /\ ret' = lerp_curve(SEASONAL_CURVE, d)
    /\ UNCHANGED progVars

CallAmplitudeToDist ==
    /\ call = NoCall
    /\ \E a \in AmplitudeGrid :
        /\ call' = [fn |-> "amplitude_to_dist_from_equator", amplitude |-> a]
        /\ ret' = amplitude_to_dist_from_equator(a)
    /\ UNCHANGED progVars

NextCurve == CallLerpCurve \/ CallLerpSeasonal \/ CallAmplitudeToDist

SpecCurve == InitCurve /\ [][NextCurve]_vars

\* C9: amplitude_to_dist_from_equator returns a distance in [0, 1] for every
\* amplitude of either sign: 0 up to 3, the line (3 -> 0)..(4 -> 0.1) up to
\* 4, the line (4 -> 0.1)..(28 -> 1.0) above 4, and at most 1.0 above 28.
C9_DistInUnitInterval ==
    call.fn = "amplitude_to_dist_from_equator"
        => LET a == Abs(call.amplitude) IN
           /\ 0 <= ret /\ ret <= DistUnit
           /\ a <= 3 * TempUnit => ret = 0
           /\ (3 * TempUnit < a /\ a <= 4 * TempUnit)
                  => ret * TempUnit = (DistUnit \div 10) * (a - 3 * TempUnit)
           /\ (4 * TempUnit < a /\ a <= 28 * TempUnit)
                  => (ret - DistUnit \div 10) * 24 * TempUnit
                         = ((9 * DistUnit) \div 10) * (a - 4 * TempUnit)

\* C10: on a sorted curve lerp_curve returns the first y for x <= first x,
\* the last y for x >= last x, otherwise the interpolation on the half-open
\* segment [x_i, x_i+1) that contains x; it never fails; on the seasonal
\* curve the result is within [3, 28].
C10_LerpCurve ==
    call.fn = "lerp_curve"
        => LET c == call.curve
               x == call.x
               n == Len(c)
           IN  /\ ret \in Int
               /\ x <= c[1][1] => ret = c[1][2]
               /\ (x >= c[n][1] /\ x > c[1][1]) => ret = c[n][2]
               /\ \A i \in 1..(n - 1) :
                      (c[1][1] < x /\ x < c[n][1] /\ c[i][1] <= x /\ x < c[i + 1][1])
                          => ret = c[i][2]
                                 + ((x - c[i][1]) * (c[i + 1][2] - c[i][2]))
                                       \div (c[i + 1][1] - c[i][1])
               /\ c = SEASONAL_CURVE
                      => (3 * TempUnit <= ret /\ ret <= 28 * TempUnit)

\* C10 witness: a call strictly inside a segment whose value is strictly
\* between the values of the segment's two breakpoints
C10_Witness ==
    /\ call.fn = "lerp_curve"
    /\ \E i \in 1..(Len(call.curve) - 1) :
           /\ call.curve[i][1] < call.x /\ call.x < call.curve[i + 1][1]
           /\ call.curve[i][2] < ret /\ ret < call.curve[i + 1][2]

(***************************************************************************)
(* scripts/aggregate_world_stats.py.  A summary is a record holding some   *)
(* of the keys total_tiles, settleable_tiles, biomes, map_features,        *)
(* rivers, roads; an entry is a record holding name and some of count_all, *)
(* count_settleable.  A dict of entries keeps its insertion order and is a *)
(* sequence of entries with distinct names.  A quotient is kept as the     *)
(* pair of its terms.                                                      *)
(***************************************************************************)
\* d.get(key, 0)
GetOr0(d, key) == IF key \in DOMAIN d THEN d[key] ELSE 0

\* summary.get(key, [])
GetList(d, key) == IF key \in DOMAIN d THEN d[key] ELSE <<>>

\* lines 25-26 with "=" for "+=": the last entry of a name wins
AddEntry_lastWins(combined, entry) ==
    LET fresh == [name |-> entry.name,
                  count_all |-> GetOr0(entry, "count_all"),
                  count_settleable |-> GetOr0(entry, "count_settleable")]
    IN  IF \E i \in 1..Len(combined) : combined[i].name = entry.name
        THEN [i \in 1..Len(combined) |->
                 IF combined[i].name = entry.name THEN fresh ELSE combined[i]]
        ELSE Append(combined, fresh)

\* combine_entries, lines 18-26: one round of the loop
AddEntry(combined, entry) ==
    LET base == IF \E i \in 1..Len(combined) : combined[i].name = entry.name
                THEN combined
                ELSE Append(combined, [name |-> entry.name, count_all |-> 0,
                                       count_settleable |-> 0])
    IN  [i \in 1..Len(base) |->
            IF base[i].name = entry.name
            THEN [base[i] EXCEPT
                    !.count_all = @ + GetOr0(entry, "count_all"),
                    !.count_settleable = @ + GetOr0(entry, "count_settleable")]
            ELSE base[i]]

RECURSIVE CombineFrom(_, _, _)
CombineFrom(combined, entries, i) ==
    IF i > Len(entries) THEN combined
    ELSE CombineFrom(AddEntry(combined, entries[i]), entries, i + 1)

\* combine_entries (lines 16-27)
combine_entries(entries) == CombineFrom(<<>>, entries, 1)

\* sorted(results, key=count_all, reverse=True): a stable sort, so entries
\* of equal count_all keep their order
RECURSIVE SortedDescending(_)
SortedDescending(rs) ==
    IF Len(rs) = 0 THEN <<>>
    ELSE LET top == CHOOSE i \in 1..Len(rs) :
                        /\ \A j \in 1..Len(rs) :
                               rs[j].count_all <= rs[i].count_all
                        /\ \A j \in 1..(i - 1) :
                               rs[j].count_all < rs[i].count_all
             rest == [j \in 1..(Len(rs) - 1) |->
                         IF j < top THEN rs[j] ELSE rs[j + 1]]
         IN  <<rs[top]>> \o SortedDescending(rest)

\* count / total if total else 0 (lines 54 and 56)
Quotient(count, total) ==
    IF total # 0 THEN [num |-> count, den |-> total] ELSE [num |-> 0, den |-> 1]

\* finalize (lines 46-58)
finalize(entries, total_tiles, settleable_tiles) ==
    SortedDescending(
        [i \in 1..Len(entries) |->
            [name |-> entries[i].name,
             count_all |-> entries[i].count_all,
             percent_all |-> Quotient(entries[i].count_all, total_tiles),
             count_settleable |-> entries[i].count_settleable,
             percent_settleable |->
                 Quotient(entries[i].count_settleable, settleable_tiles)]])

AggStart ==
    [total_tiles |-> 0, settleable_tiles |-> 0, biomes |-> <<>>,
     mutators |-> <<>>, rivers |-> <<>>, roads |-> <<>>]

\* aggregate, lines 38-44: one round of the loop, on a loaded summary
AggRound(acc, summary) ==
    [total_tiles |-> acc.total_tiles + GetOr0(summary, "total_tiles"),
     settleable_tiles |->
         acc.settleable_tiles + GetOr0(summary, "settleable_tiles"),
     biomes |-> combine_entries(acc.biomes \o GetList(summary, "biomes")),
     mutators |->
         combine_entries(acc.mutators \o GetList(summary, "map_features")),
     rivers |-> combine_entries(acc.rivers \o GetList(summary, "rivers")),
     roads |-> combine_entries(acc.roads \o GetList(summary, "roads"))]

RECURSIVE AggFrom(_, _, _)
AggFrom(acc, files, i) ==
    IF i > Len(files) THEN acc
    ELSE AggFrom(AggRound(acc, files[i].content), files, i + 1)

\* aggregate (lines 30-70) on files given as records of path and content
aggregate(files) ==
    LET acc == AggFrom(AggStart, files, 1)
    IN  [generated |-> files[Len(files)].path,
         samples |-> Len(files),
         total_tiles |-> acc.total_tiles,
         settleable_tiles |-> acc.settleable_tiles,
         biomes |-> finalize(acc.biomes, acc.total_tiles, acc.settleable_tiles),
         map_features |->
             finalize(acc.mutators, acc.total_tiles, acc.settleable_tiles),
         rivers |-> finalize(acc.rivers, acc.total_tiles, acc.settleable_tiles),
         roads |-> finalize(acc.roads, acc.total_tiles, acc.settleable_tiles)]

(***************************************************************************)
(* SpecAggregate: one call of aggregate on up to MaxFiles files            *)
(***************************************************************************)
MaxFiles == 3

Entry(name, count_all, count_settleable) ==
    [name |-> name, count_all |-> count_all,
     count_settleable |-> count_settleable]

SummaryFiles ==
    { [path |-> "w1.json",
       content |-> [total_tiles |-> 10, settleable_tiles |-> 4,
                    biomes |-> <<Entry("Desert", 3, 1), Entry("Tundra", 5, 2)>>,
                    map_features |-> <<Entry("Caves", 2, 2)>>,
                    rivers |-> <<Entry("Creek", 1, 0)>>,
                    roads |-> <<Entry("DirtRoad", 1, 1)>>]],
      [path |-> "w2.json",
       content |-> [total_tiles |-> 6, settleable_tiles |-> 0,
                    biomes |-> <<Entry("Tundra", 4, 0), Entry("Desert", 1, 0),
                                 Entry("Tundra", 2, 0)>>,
                    rivers |-> <<Entry("River", 2, 0), Entry("Creek", 2, 0)>>]],
      [path |-> "w3.json",
       content |-> [total_tiles |-> 0, settleable_tiles |-> 0,
                    biomes |-> <<>>, map_features |-> <<>>,
                    rivers |-> <<>>, roads |-> <<>>]],
      [path |-> "w4.json",
       content |-> [biomes |-> << [name |-> "Desert"],
                                  [name |-> "desert", count_all |-> 7] >>,
                    roads |-> << [name |-> "DirtRoad", count_settleable |-> 3] >>]],
      [path |-> "w5.json",
       content |-> [total_tiles |-> 8, settleable_tiles |-> 8,
                    biomes |-> <<Entry("Forest", 8, 8)>>,
                    map_features |-> <<Entry("Caves", 1, 0), Entry("Ruins", 1, 1)>>,
                    roads |-> <<Entry("StoneRoad", 2, 2), Entry("DirtRoad", 2, 0)>>]] }

RECURSIVE SeqsUpTo(_, _)
SeqsUpTo(S, n) ==
    IF n = 0 THEN {<<>>}
    ELSE LET shorter == SeqsUpTo(S, n - 1)
         IN  shorter \cup { Append(s, x) : s \in shorter, x \in S }

InitAggregate == ProgIdle /\ call = NoCall /\ ret = None

CallAggregate ==
    /\ call = NoCall
    /\ \E files \in SeqsUpTo(SummaryFiles, MaxFiles) \ {<<>>} :
        /\ call' = [fn |-> "aggregate", files |-> files]
        /\ ret' = aggregate(files)
    /\ UNCHANGED progVars

NextAggregate == CallAggregate

SpecAggregate == InitAggregate /\ [][NextAggregate]_vars

(***************************************************************************)
(* Properties of parse_cache_file, checked under SpecParse                 *)
(***************************************************************************)
\* the positions of the TILE headers of a file
HeaderPositions(f) == { i \in 1..Len(f) : HeaderMatch(rstrip(f[i])) }

\* the positions of the matched property lines of a file
PropPositions(f) ==
    { i \in 1..Len(f) : ~HeaderMatch(rstrip(f[i])) /\ PropMatch(rstrip(f[i])) }

DistinctHeaderIds(f) ==
    \A i, j \in HeaderPositions(f) :
        i # j => HeaderId(rstrip(f[i])) # HeaderId(rstrip(f[j]))

\* the property lines whose nearest preceding header is at position h
BlockProps(f, h) ==
    { j \in PropPositions(f) :
        h < j /\ \A g \in HeaderPositions(f) : ~(h < g /\ g < j) }

\* the record the block of the header at h describes: each key of its
\* property lines with the value of the last line carrying it
BlockRecord(f, h) ==
    LET props == BlockProps(f, h)
        keys == { PropKey(rstrip(f[j])) : j \in props }
        last(k) == CHOOSE j \in props :
                       /\ PropKey(rstrip(f[j])) = k
                       /\ \A m \in props :
                              PropKey(rstrip(f[m])) = k => m <= j
    IN  [k \in keys |-> Coerce(PropValue(rstrip(f[last(k)])))]

\* C1: when the headers of the input carry distinct ids, parse_cache_file
\* returns one record per header, in the order of the headers, the block
\* open at end of input included, and the record of a header holds exactly
\* the property lines between it and the next header, so that property
\* lines before the first header are in no record.
C1_OneRecordPerHeader ==
    (pc = "parsed" /\ DistinctHeaderIds(file)) =>
        /\ Len(tiles) = Cardinality(HeaderPositions(file))
        /\ \A h \in HeaderPositions(file) :
               LET i == Cardinality({ g \in HeaderPositions(file) : g <= h })
               IN  /\ tiles[i][1] = HeaderId(rstrip(file[h]))
                   /\ DOMAIN tiles[i][2] = DOMAIN BlockRecord(file, h)
                   /\ \A k \in DOMAIN tiles[i][2] :
                          tiles[i][2][k] = BlockRecord(file, h)[k]

\* C1 witness: a parsed file of two headers with distinct ids that starts
\* with a property line and ends inside the second block, which has a
\* property line
C1_Witness ==
    /\ pc = "parsed"
    /\ DistinctHeaderIds(file)
    /\ Cardinality(HeaderPositions(file)) = 2
    /\ 1 \in PropPositions(file)
    /\ Len(file) \in PropPositions(file)
    /\ Len(tiles) = 2
    /\ DOMAIN tiles[2][2] # {}

(***************************************************************************)
(* Properties of analyze_cache                                             *)
(***************************************************************************)
RequiredKeys ==
    {Key("temperature"), Key("MinTemperature"), Key("MaxTemperature")}

HasRequired(data) == RequiredKeys \subseteq DOMAIN data

\* some dict of the returned list is the one made for the tile
InResults(tile_id) ==
    \E r \in 1..Len(results) : results[r][Key("tile_id")] = IntVal(tile_id)

\* the raw value under key is present and is not the sentinel null
PresentNotNull(data, key) ==
    key \in DOMAIN data /\ data[key] # StrVal(NullText)

\* every condition the criteria hold is met by the tile
ConditionsHold(c, data) ==
    /\ "hilliness" \in DOMAIN c.dict =>
           /\ Key("hilliness") \in DOMAIN data
           /\ data[Key("hilliness")] = StrVal(c.dict.hilliness)
    /\ ("has_river" \in DOMAIN c.dict /\ c.dict.has_river) =>
           PresentNotNull(data, Key("Rivers"))
    /\ ("has_road" \in DOMAIN c.dict /\ c.dict.has_road) =>
           PresentNotNull(data, Key("Roads"))
    /\ "growing_days_min" \in DOMAIN c.dict =>
           TileGrowingDays(data) >= c.dict.growing_days_min

ReturnedResults == pc = "returned" /\ outcome = Returned("results")

\* C2: when analyze_cache returns the result list of a filter, a tile is
\* in the list if and only if it has temperature, MinTemperature and
\* MaxTemperature and meets every condition of the criteria: the same
\* hilliness, a river if required, a road if required, at least the
\* minimum of growing days.
C2_InResultsIffAllConditions ==
    ReturnedResults =>
        \A i \in 1..Len(tiles) :
            InResults(tiles[i][1]) <=>
                (HasRequired(tiles[i][2]) /\ ConditionsHold(criteria, tiles[i][2]))

\* C2 witness: under the four conditions of the default filter one tile is
\* returned
C2_Witness ==
    /\ ReturnedResults
    /\ criteria = DEFAULT_FILTER_CRITERIA
    /\ Len(tiles) = 1
    /\ InResults(tiles[1][1])

\* C3: when the filter requires only a river (or only a road), a tile with
\* the three temperatures is returned if and only if its Rivers (or Roads)
\* key is present and its value is not null.
C3_PresenceCheck ==
    ReturnedResults =>
        \A i \in 1..Len(tiles) :
            HasRequired(tiles[i][2]) =>
                /\ criteria = Criteria([has_river |-> TRUE]) =>
                       (InResults(tiles[i][1])
                            <=> PresentNotNull(tiles[i][2], Key("Rivers")))
                /\ criteria = Criteria([has_road |-> TRUE]) =>
                       (InResults(tiles[i][1])
                            <=> PresentNotNull(tiles[i][2], Key("Roads")))

\* C3 witness: a river is required; the tile's line is "Rivers: 0" and the
\* tile is returned
C3_Witness ==
    /\ ReturnedResults
    /\ criteria = Criteria([has_river |-> TRUE])
    /\ Len(tiles) = 1
    /\ Get(tiles[1][2], Key("Rivers")) = IntVal(0)
    /\ InResults(tiles[1][1])

\* the position of a tile in the mapping the parser returned
Pos(tile_id) == CHOOSE i \in 1..Len(tiles) : tiles[i][1] = tile_id

ResultId(r) == results[r][Key("tile_id")].num \div TempUnit

\* C4 (as stated): the returned list is in ascending order of tile id
C4_AscendingTileId ==
    ReturnedResults =>
        \A a, b \in 1..Len(results) : a < b => ResultId(a) < ResultId(b)

\* C4 (amended): the returned list is in the order in which the tiles'
\* blocks were first closed in the file.  The results follow the order of
\* the parser's mapping, and the parser puts a new id after all the ids it
\* holds and never moves an id.
C4_ResultsInFileOrder ==
    /\ [](\A a, b \in 1..Len(results) :
              a < b => Pos(ResultId(a)) < Pos(ResultId(b)))
    /\ [][/\ Len(tiles') >= Len(tiles)
          /\ Len(tiles') <= Len(tiles) + 1
          /\ \A i \in 1..Len(tiles) : tiles'[i][1] = tiles[i][1]
          /\ Len(tiles') > Len(tiles) =>
                 /\ pc = "parse"
                 /\ tiles'[Len(tiles')][1] = current_tile]_vars

\* C4 witness: the block of tile 2 comes before the block of tile 1 and
\* both are returned, tile 2 first
C4_Witness ==
    /\ ReturnedResults
    /\ Len(results) = 2
    /\ ResultId(1) = 2
    /\ ResultId(2) = 1

\* C5: when a tile's temperature, MinTemperature or MaxTemperature line
\* carries a value that is not a number, the run is not ended by an
\* exception.
C5_NoAbortOnNonNumber ==
    (\E i \in 1..Len(tiles) : \E k \in RequiredKeys :
         Get(tiles[i][2], k).tag = "str")
        => outcome.kind # "raise"

\* C6: a tile lacking temperature, MinTemperature or MaxTemperature is
\* never in the results; the parser keeps the block open at the end of
\* input whatever keys it has, and the mapping is the same from then on;
\* the round of the loop on such a tile changes nothing but the position
\* in the mapping (no count, no statistic, no result, no exception).
C6_IncompleteTileKeptButSkipped ==
    /\ [](\A i \in 1..Len(tiles) :
              ~HasRequired(tiles[i][2]) => ~InResults(tiles[i][1]))
    /\ [][/\ (pc = "parse" /\ pc' = "parsed" /\ current_tile # NoTile) =>
                 \E i \in 1..Len(tiles') :
                     tiles'[i] = <<current_tile, current_data>>
          /\ pc \in {"parsed", "loop", "returned"} => tiles' = tiles
          /\ (pc = "loop" /\ idx < Len(tiles)
                  /\ ~HasRequired(tiles[idx + 1][2])) =>
                 /\ idx' = idx + 1
                 /\ pc' = "loop"
                 /\ UNCHANGED <<results, year_round_count, stats, outcome>>
         ]_vars

\* C6 witness: a mountainous tile with a river, a road, MinTemperature and
\* MaxTemperature but no temperature; the filter asks for all of these but
\* growing days; the tile is in the mapping and the result list is empty
C6_Witness ==
    /\ ReturnedResults
    /\ criteria = Criteria([k \in {"hilliness", "has_river", "has_road"} |->
                                DEFAULT_FILTER_CRITERIA.dict[k]])
    /\ Len(tiles) = 1
    /\ DOMAIN tiles[1][2] =
           {Key("MinTemperature"), Key("MaxTemperature"), Key("hilliness"),
            Key("Rivers"), Key("Roads")}
    /\ ConditionsHold(criteria, tiles[1][2])
    /\ results = <<>>

(***************************************************************************)
(* Properties of the growing-days engine, checked under SpecCalc           *)
(***************************************************************************)
\* C11: the sample ticks of twelfth k are k*300000 + 30000 + 2500*i for i
\* in 0..119, evenly spaced, and each lies in the twelfth's own period
\* [k*300000, (k+1)*300000).
C11_SamplesInsideOwnTwelfth ==
    call.fn = "average_temp_for_twelfth" =>
        /\ ret = call.twelfth * 300000 + 30000 + (call.i * 300000) \div 120
        /\ call.i > 0 =>
               ret - SampleTick(call.twelfth, call.i - 1) = 300000 \div 120
        /\ call.twelfth * 300000 <= ret
        /\ ret < (call.twelfth + 1) * 300000

(***************************************************************************)
(* Properties of a second pass of the filter, checked under SpecRefilter   *)
(***************************************************************************)
SecondPassDone ==
    call.fn = "analyze_cache" /\ pc = "loop" /\ idx = Len(tiles)

HasPoint(text) == \E i \in 1..Len(text) : text[i] = "."

\* C13: when the parser accepts a property line, the value it stores under
\* the line's key is a float if the text has a decimal point and parses as
\* a number, an int if it has no decimal point and parses as an integer,
\* and otherwise the text itself; the parser goes on to the next line.
C13_ValueCoercion ==
    [][(pc = "parse" /\ Len(file') = Len(file) + 1) =>
         LET line == rstrip(file'[Len(file')])
             text == PropValue(line)
             stored == current_data'[PropKey(line)]
         IN  (~HeaderMatch(line) /\ PropMatch(line) /\ current_tile # NoTile) =>
                 /\ pc' = "parse"
                 /\ PropKey(line) \in DOMAIN current_data'
                 /\ IF HasPoint(text) /\ IsFloatText(text)
                    THEN stored.tag = "float" /\ stored.num = FloatUnits(text)
                    ELSE IF ~HasPoint(text) /\ IsIntText(text)
                    THEN /\ stored.tag = "int"
                         /\ stored.num = Sign(text) * DigitsToNat(Unsigned(text))
                                             * TempUnit
                    ELSE stored = StrVal(text)]_vars

\* C13 witness: the open block holds a float (20.5), an int (-20) and the
\* text [...], which has decimal points and is not a number
C13_Witness ==
    /\ pc = "parse"
    /\ current_tile # NoTile
    /\ Get(current_data, Key("temperature")) = FloatVal(20 * TempUnit + TempUnit \div 2)
    /\ Get(current_data, Key("MinTemperature")) = IntVal(-20)
    /\ Get(current_data, Key("Rivers")) = StrVal(Placeholder)

(***************************************************************************)
(* Properties of main, checked under Spec                                  *)
(***************************************************************************)
\* C14: with --about, main prints the documentation and exits 0, whatever
\* the other flags and the path: it never runs the tests and never reads a
\* file.  With neither --about nor --test and no path, main prints the
\* usage and exits 1 and never reads a file.
C14_Dispatch ==
    argv.entry = "main" =>
        /\ argv.about =>
               /\ pc \in {"start", "exit"}
               /\ pc = "exit" => outcome = Printed("ABOUT_TEXT", 0)
               /\ lineno = 0 /\ tiles = <<>> /\ results = <<>>
        /\ (~argv.about /\ ~argv.test /\ ~argv.cache_file) =>
               /\ pc \in {"start", "exit"}
               /\ pc = "exit" => outcome = Printed("print_help", 1)
               /\ lineno = 0 /\ tiles = <<>> /\ results = <<>>

\* C14 witness: main has ended after --about --test --filter and a path
C14_Witness ==
    /\ argv.entry = "main"
    /\ argv.about /\ argv.test /\ argv.filter /\ argv.cache_file
    /\ pc = "exit"

(***************************************************************************)
(* Properties of aggregate, checked under SpecAggregate                    *)
(***************************************************************************)
\* the entries of one category in all the input summaries, file after file
RECURSIVE InputEntries(_, _, _)
InputEntries(files, category, n) ==
    IF n = 0 THEN <<>>
    ELSE InputEntries(files, category, n - 1)
             \o GetList(files[n].content, category)

\* the sum of a count over the first n of the entries that carry the name
RECURSIVE SumOfName(_, _, _, _)
SumOfName(entries, name, field, n) ==
    IF n = 0 THEN 0
    ELSE SumOfName(entries, name, field, n - 1)
             + (IF entries[n].name = name THEN GetOr0(entries[n], field) ELSE 0)

\* the sum of a total over the first n input summaries
RECURSIVE SumOfTotal(_, _, _)
SumOfTotal(files, field, n) ==
    IF n = 0 THEN 0
    ELSE SumOfTotal(files, field, n - 1) + GetOr0(files[n].content, field)

Categories == {"biomes", "map_features", "rivers", "roads"}

\* C15: in every category array of the aggregate each name of the inputs
\* occurs exactly once, with count_all and count_settleable the sums of
\* those counts over all input entries of exactly that name, and with the
\* percentages those sums over the summed total_tiles and
\* settleable_tiles, or 0 when the summed total is 0.
C15_AggregateSums ==
    call.fn = "aggregate" =>
        \A category \in Categories :
            LET arr == ret[category]
                inputs == InputEntries(call.files, category, Len(call.files))
                all == SumOfTotal(call.files, "total_tiles", Len(call.files))
                settleable ==
                    SumOfTotal(call.files, "settleable_tiles", Len(call.files))
                sum(name, field) == SumOfName(inputs, name, field, Len(inputs))
            IN  /\ \A i, j \in 1..Len(arr) : arr[i].name = arr[j].name => i = j
                /\ { arr[i].name : i \in 1..Len(arr) }
                       = { inputs[i].name : i \in 1..Len(inputs) }
                /\ \A i \in 1..Len(arr) :
                       /\ arr[i].count_all = sum(arr[i].name, "count_all")
                       /\ arr[i].count_settleable
                              = sum(arr[i].name, "count_settleable")
                       /\ arr[i].percent_all =
                              IF all = 0 THEN [num |-> 0, den |-> 1]
                              ELSE [num |-> arr[i].count_all, den |-> all]
                       /\ arr[i].percent_settleable =
                              IF settleable = 0 THEN [num |-> 0, den |-> 1]
                              ELSE [num |-> arr[i].count_settleable,
                                    den |-> settleable]

\* C15 witness: three summaries are aggregated in which Tundra occurs three
\* times (twice in one summary) and sums to 11 of 16 tiles
C15_Witness ==
    /\ call.fn = "aggregate"
    /\ Len(call.files) = 3
    /\ \E i \in 1..Len(ret.biomes) :
           /\ ret.biomes[i].name = "Tundra"
           /\ ret.biomes[i].count_all = 11
           /\ ret.biomes[i].percent_all = [num |-> 11, den |-> 16]

(***************************************************************************)
(* Further properties of analyze_cache, checked under SpecBlock            *)
(***************************************************************************)
\* the tiles with the three temperatures whose value under key would pass
\* the filter's check of a river or road
WouldPassPresence(key) ==
    { i \in 1..Len(tiles) :
        HasRequired(tiles[i][2]) /\ PresentNotNull(tiles[i][2], key) }

\* C16: when analyze_cache returns, its "With river" and "With road"
\* statistics count exactly the tiles with the three temperatures that
\* would pass the has_river, respectively the has_road, check of the filter.
C16_StatisticsAgreeWithFilter ==
    pc = "returned" =>
        /\ stats.with_river = Cardinality(WouldPassPresence(Key("Rivers")))
        /\ stats.with_road = Cardinality(WouldPassPresence(Key("Roads")))

(***************************************************************************)
(* Properties of the result records, checked under SpecOpaque              *)
(***************************************************************************)
\* C17: every record of the returned list has, for some tile of the file,
\* the id of the tile's header as tile_id, the growing days derived for
\* the tile as growing_days and the tile's temperature, MinTemperature and
\* MaxTemperature as temp, min_temp and max_temp, whatever other keys the
\* tile's block has.
C17_OwnFieldsKept ==
    ReturnedResults =>
        \A r \in 1..Len(results) :
            \E i \in 1..Len(tiles) :
                LET data == tiles[i][2]
                IN  /\ HasRequired(data)
                    /\ results[r][Key("tile_id")] = IntVal(tiles[i][1])
                    /\ results[r][Key("growing_days")]
                           = IntVal(TileGrowingDays(data))
                    /\ results[r][Key("temp")] = data[Key("temperature")]
                    /\ results[r][Key("min_temp")] = data[Key("MinTemperature")]
                    /\ results[r][Key("max_temp")] = data[Key("MaxTemperature")]

(***************************************************************************)
(* Completion of analyze_cache, checked under Spec                         *)
(***************************************************************************)
\* C18: for every file, a file with no TILE block included, analyze_cache
\* prints its statistics and returns; no exception ends the run.
C18_CompletesNormally == outcome.kind # "raise"

(***************************************************************************)
(* Properties of the two hemispheres, checked under SpecHemisphere         *)
(***************************************************************************)
HalfYearLater(k) == (k + 6) % 12

====
